---- MODULE Spec2Model ----
(***************************************************************************)
(* Li-Mat Frontier RSS aggregation scripts.                                *)
(*                                                                         *)
(* Three editions of the pipeline are modelled:                            *)
(*   "basic"     scripts/fetch-rss-new.js, first script  (lines 1-186)     *)
(*   "optimized" scripts/fetch-rss-optimized.js                            *)
(*   "keyword"   scripts/fetch-rss-new.js, second script (lines 188-637)   *)
(*                                                                         *)
(* JavaScript strings are TLA+ strings.  TLA+ strings are ASCII, so the    *)
(* character "#" stands for one character of the range U+4E00..U+9FA5 and  *)
(* the Chinese category names are written in English.                      *)
(***************************************************************************)
EXTENDS Integers, Sequences, FiniteSets, TLC

Min(a, b) == IF a < b THEN a ELSE b

Max(a, b) == IF a > b THEN a ELSE b

\* the n-th smallest element of a set of numbers
Nth(S, n) == CHOOSE i \in S : Cardinality({j \in S : j <= i}) = n

(***************************************************************************)
(* String primitives of the JavaScript runtime, as the scripts use them.   *)
(***************************************************************************)
\* String.prototype.toLowerCase on one character (ASCII letters).
LowerTable ==
    [A |-> "a", B |-> "b", C |-> "c", D |-> "d", E |-> "e", F |-> "f",
     G |-> "g", H |-> "h", I |-> "i", J |-> "j", K |-> "k", L |-> "l",
     M |-> "m", N |-> "n", O |-> "o", P |-> "p", Q |-> "q", R |-> "r",
     S |-> "s", T |-> "t", U |-> "u", V |-> "v", W |-> "w", X |-> "x",
     Y |-> "y", Z |-> "z"]

CharAt(s, i) == SubSeq(s, i, i)

lowerChar(c) == IF c \in DOMAIN LowerTable THEN LowerTable[c] ELSE c

\* String.prototype.toLowerCase: character by character (the string is
\* halved at each step, which keeps the evaluation shallow)
RECURSIVE toLowerCase(_)
toLowerCase(s) ==
    IF Len(s) = 0 THEN ""
    ELSE IF Len(s) = 1 THEN lowerChar(s)
    ELSE toLowerCase(SubSeq(s, 1, Len(s) \div 2))
             \o toLowerCase(SubSeq(s, Len(s) \div 2 + 1, Len(s)))

\* String.prototype.includes
includes(s, w) ==
    \E i \in 1..(Len(s) - Len(w) + 1) : SubSeq(s, i, i + Len(w) - 1) = w

\* String.prototype.substring(from, to), 0 <= from <= to
substring(s, from, to) == SubSeq(s, from + 1, Min(to, Len(s)))

WhiteSpace == {" ", "\t", "\n", "\r"}

RECURSIVE trimStart(_)
trimStart(s) ==
    IF s # "" /\ CharAt(s, 1) \in WhiteSpace
    THEN trimStart(SubSeq(s, 2, Len(s)))
    ELSE s

RECURSIVE trimEnd(_)
trimEnd(s) ==
    IF s # "" /\ CharAt(s, Len(s)) \in WhiteSpace
    THEN trimEnd(SubSeq(s, 1, Len(s) - 1))
    ELSE s

\* String.prototype.trim
trim(s) == trimEnd(trimStart(s))

\* html.replace(/<[^>]*>/g, ''): the leftmost "<" that a ">" follows is
\* removed together with everything up to the first ">" after it, and so on
\* in the rest; a "<" that no ">" follows stays.
RECURSIVE removeTags(_)
removeTags(s) ==
    LET opens == {i \in 1..Len(s) :
                     /\ CharAt(s, i) = "<"
                     /\ \E j \in (i + 1)..Len(s) : CharAt(s, j) = ">"}
    IN  IF opens = {} THEN s
        ELSE LET open  == CHOOSE i \in opens : \A o \in opens : i <= o
                 close == CHOOSE j \in (open + 1)..Len(s) :
                              /\ CharAt(s, j) = ">"
                              /\ \A k \in (open + 1)..(j - 1) : CharAt(s, k) # ">"
             IN  SubSeq(s, 1, open - 1) \o removeTags(SubSeq(s, close + 1, Len(s)))

stripHtml(html) == IF html = "" THEN "" ELSE trim(removeTags(html))

\* "#" stands for a character of U+4E00..U+9FA5.
CJK == {"#"}

\* a test that looks at the first character only
isChinese_firstChar(text) ==
    IF text = "" THEN FALSE
    ELSE CharAt(text, 1) \in CJK

isChinese(text) ==
    IF text = "" THEN FALSE
    ELSE \E i \in 1..Len(text) : CharAt(text, i) \in CJK

SUMMARY_CHARS == 150

DESCRIPTION_CHARS == 500

\* a fallback that does not cut the text
fallbackSummary_noCut(text) == text \o "..."

\* text.substring(0, 150) + '...'
fallbackSummary(text) == substring(text, 0, SUMMARY_CHARS) \o "..."

(***************************************************************************)
(* Configuration of the keyword edition.                                   *)
(***************************************************************************)
CATEGORY_KEYWORDS == <<
    [name |-> "MaterialInnovation",
     include |-> << "aluminum", "aluminium", "steel", "alloy", "metal",
                    "titanium", "magnesium", "lightweight metal",
                    "automotive metal",
                    "carbon fiber", "carbon fibre", "composite", "plastic",
                    "polymer", "automotive plastic", "thermoplastic", "resin",
                    "fiber glass", "fiberglass" >>,
     exclude |-> << "semiconductor", "chip", "processor", "cpu", "gpu" >>],
    [name |-> "AntiCorrosion",
     include |-> << "corrosion", "anti-corrosion", "coating", "paint",
                    "surface treatment", "rust", "galvaniz",
                    "cathodic protection", "automotive coating" >>,
     exclude |-> << >>],
    [name |-> "CabinHealth",
     include |-> << "formaldehyde", "voc", "volatile organic", "odor", "odour",
                    "low-odor", "interior material", "cabin air",
                    "air quality", "low-emission", "indoor air", "emission",
                    "toxic", "health", "safety", "cleanroom", "antimicrobial",
                    "antibacterial", "hypoallergenic", "eco-friendly",
                    "non-toxic", "green material", "sustainable interior",
                    "bio-based", "natural fiber", "recycled fabric",
                    "breathable", "ventilation" >>,
     exclude |-> << >>] >>

\* Object.keys(CATEGORY_KEYWORDS), in insertion order
CategoryNames == [i \in 1..Len(CATEGORY_KEYWORDS) |-> CATEGORY_KEYWORDS[i].name]

NoCategory == "null"

(***************************************************************************)
(* Relevance scoring.                                                      *)
(***************************************************************************)
\* a scorer whose title bonus is 1 instead of 2
RECURSIVE countMatches_smallBonus(_, _, _, _, _)
countMatches_smallBonus(incl, lo, hi, searchText, title) ==
    IF lo > hi THEN 0
    ELSE IF lo = hi
    THEN LET w == toLowerCase(incl[lo])
         IN  IF includes(searchText, w)
             THEN 1 + (IF includes(toLowerCase(title), w) THEN 1 ELSE 0)
             ELSE 0
    ELSE countMatches_smallBonus(incl, lo, (lo + hi) \div 2, searchText, title)
         + countMatches_smallBonus(incl, (lo + hi) \div 2 + 1, hi, searchText, title)

\* what the loop over keywords.include adds to matchCount on include[lo..hi]:
\* matchCount++ for a keyword found in searchText, and matchCount += 2 when
\* it is also found in the title; a range of several keywords is the sum of
\* its two halves
RECURSIVE countMatches(_, _, _, _, _)
countMatches(incl, lo, hi, searchText, title) ==
    IF lo > hi THEN 0
    ELSE IF lo = hi
    THEN LET w == toLowerCase(incl[lo])
         IN  IF includes(searchText, w)
             THEN 1 + (IF includes(toLowerCase(title), w) THEN 2 ELSE 0)
             ELSE 0
    ELSE countMatches(incl, lo, (lo + hi) \div 2, searchText, title)
         + countMatches(incl, (lo + hi) \div 2 + 1, hi, searchText, title)

calculateRelevanceScore(article, category) ==
    IF \A i \in 1..Len(CATEGORY_KEYWORDS) : CATEGORY_KEYWORDS[i].name # category
    THEN 0
    ELSE LET keywords == CATEGORY_KEYWORDS[
                 CHOOSE i \in 1..Len(CATEGORY_KEYWORDS) :
                     CATEGORY_KEYWORDS[i].name = category]
             searchText == toLowerCase(article.title \o " " \o article.description)
         IN  IF \E e \in 1..Len(keywords.exclude) :
                    includes(searchText, toLowerCase(keywords.exclude[e]))
             THEN 0
             ELSE Min(100, countMatches(keywords.include, 1, Len(keywords.include),
                                        searchText, article.title) * 10)

\* an assignCategory whose later category wins a tie
RECURSIVE assignLoop_lastTie(_, _, _, _)
assignLoop_lastTie(article, i, bestCategory, bestScore) ==
    IF i > Len(CategoryNames)
    THEN [category |-> bestCategory, relevanceScore |-> bestScore]
    ELSE LET score == calculateRelevanceScore(article, CategoryNames[i])
         IN  IF score > 0 /\ score >= bestScore
             THEN assignLoop_lastTie(article, i + 1, CategoryNames[i], score)
             ELSE assignLoop_lastTie(article, i + 1, bestCategory, bestScore)

\* the loop of assignCategory over the categories, from index i on
RECURSIVE assignLoop(_, _, _, _)
assignLoop(article, i, bestCategory, bestScore) ==
    IF i > Len(CategoryNames)
    THEN [category |-> bestCategory, relevanceScore |-> bestScore]
    ELSE LET score == calculateRelevanceScore(article, CategoryNames[i])
         IN  IF score > bestScore
             THEN assignLoop(article, i + 1, CategoryNames[i], score)
             ELSE assignLoop(article, i + 1, bestCategory, bestScore)

assignCategory(article) == assignLoop(article, 1, NoCategory, 0)

(***************************************************************************)
(* Feed items and the Normalizer (the body of fetchRSS).                   *)
(*                                                                         *)
(* A raw item carries title, link, contentSnippet, content, description,   *)
(* pubDate and isoDate; a missing string field is "".  A raw date is       *)
(* [kind, ms]: "absent", "invalid" (new Date(..) is an Invalid Date) or    *)
(* "date" (a string denoting the instant ms).  An article's date is the    *)
(* instant in milliseconds that its ISO-8601 string denotes: toISOString   *)
(* and new Date(..).getTime() are inverse on valid instants.               *)
(***************************************************************************)
AbsentDate == [kind |-> "absent", ms |-> 0]

InvalidDate == [kind |-> "invalid", ms |-> 0]

DateAt(t) == [kind |-> "date", ms |-> t]

\* a || b on strings
orElse(a, b) == IF a # "" THEN a ELSE b

\* item.pubDate || item.isoDate || new Date()
pubDateOf(item, now) ==
    IF item.pubDate.kind # "absent" THEN item.pubDate
    ELSE IF item.isoDate.kind # "absent" THEN item.isoDate
    ELSE DateAt(now)

\* new Date(pubDate).toISOString() raises RangeError on an Invalid Date
toISOStringThrows(item, now) == pubDateOf(item, now).kind = "invalid"

rawText(item) ==
    stripHtml(orElse(item.contentSnippet, orElse(item.content, item.description)))

normalize(edition, item, category, now) ==
    [title       |-> trim(item.title),
     link        |-> trim(item.link),
     date        |-> pubDateOf(item, now).ms,
     category    |-> IF edition = "keyword" THEN "" ELSE category,
     description |-> substring(rawText(item), 0, DESCRIPTION_CHARS),
     summary     |-> IF edition = "basic" THEN fallbackSummary(rawText(item))
                     ELSE ""]

\* fetchRSS: body.ok is FALSE when parser.parseURL rejects (network error,
\* timeout, non-2xx, malformed feed); any exception ends in `return []`.
fetchRSS(edition, body, category, now) ==
    IF ~body.ok THEN << >>
    ELSE IF \E i \in 1..Len(body.items) : toISOStringThrows(body.items[i], now)
         THEN << >>
         ELSE [i \in 1..Len(body.items) |->
                  normalize(edition, body.items[i], category, now)]

(***************************************************************************)
(* Deduplicator: the forEach over allArticles with the Set of titles.      *)
(***************************************************************************)
\* a Deduplicator that forgets titles.add(article.title)
RECURSIVE dedupLoop_noAdd(_, _, _, _)
dedupLoop_noAdd(all, lo, hi, titles) ==
    IF lo > hi THEN [titles |-> titles, unique |-> << >>]
    ELSE IF lo = hi
    THEN IF all[lo].title \notin titles
         THEN [titles |-> titles, unique |-> <<all[lo]>>]
         ELSE [titles |-> titles, unique |-> << >>]
    ELSE LET first  == dedupLoop_noAdd(all, lo, (lo + hi) \div 2, titles)
             second == dedupLoop_noAdd(all, (lo + hi) \div 2 + 1, hi, first.titles)
         IN  [unique |-> first.unique \o second.unique, titles |-> second.titles]

\* a Deduplicator in which a later article replaces the retained one
RECURSIVE dedupLoop_lastWins(_, _, _, _)
dedupLoop_lastWins(all, lo, hi, titles) ==
    IF lo > hi THEN [titles |-> titles, unique |-> << >>]
    ELSE IF lo = hi
    THEN [titles |-> titles \cup {all[lo].title}, unique |-> <<all[lo]>>]
    ELSE LET first  == dedupLoop_lastWins(all, lo, (lo + hi) \div 2, titles)
             second == dedupLoop_lastWins(all, (lo + hi) \div 2 + 1, hi, {})
             stays(a) == a.title \notin second.titles
         IN  [unique |-> SelectSeq(first.unique, stays) \o second.unique,
              titles |-> first.titles \cup second.titles]

\* The forEach over all[lo..hi], entered with the Set titles: the articles
\* it pushes to uniqueArticles and the Set it leaves.  A range of several
\* articles is its first half followed by its second half, the second half
\* entered with the Set the first half leaves.
RECURSIVE dedupLoop(_, _, _, _)
dedupLoop(all, lo, hi, titles) ==
    IF lo > hi THEN [titles |-> titles, unique |-> << >>]
    ELSE IF lo = hi
    THEN IF all[lo].title \notin titles
         THEN [titles |-> titles \cup {all[lo].title}, unique |-> <<all[lo]>>]
         ELSE [titles |-> titles, unique |-> << >>]
    ELSE LET first  == dedupLoop(all, lo, (lo + hi) \div 2, titles)
             second == dedupLoop(all, (lo + hi) \div 2 + 1, hi, first.titles)
         IN  [unique |-> first.unique \o second.unique, titles |-> second.titles]

Deduplicate(all) == dedupLoop(all, 1, Len(all), {}).unique

(***************************************************************************)
(* Array.prototype.sort is stable.  before(a, b) is "compare(a, b) < 0".   *)
(***************************************************************************)
\* Array.prototype.sort with a comparator that orders consistently: arr[i]
\* lands behind every element that has to come before it and behind the
\* equal elements that precede it in arr.
sort(arr, before(_, _)) ==
    LET n == Len(arr)
        ahead(i) == {j \in 1..n : \/ before(arr[j], arr[i])
                                  \/ ~before(arr[i], arr[j]) /\ j < i}
        place == [i \in 1..n |-> Cardinality(ahead(i)) + 1]
    IN  [p \in 1..n |-> arr[CHOOSE i \in 1..n : place[i] = p]]

\* (a, b) => new Date(b.date) - new Date(a.date)
byDateDesc(a, b) == b.date - a.date < 0

\* (a, b) => b.finalScore - a.finalScore ; finalScore is the rational num/den
byFinalScoreDesc(a, b) ==
    b.finalScore.num * a.finalScore.den - a.finalScore.num * b.finalScore.den < 0

\* (a, b) => b.relevanceScore - a.relevanceScore
byRelevanceDesc(a, b) == b.relevanceScore - a.relevanceScore < 0

\* Array.prototype.filter
filter(arr, keep(_)) == SelectSeq(arr, keep)

\* a slice that does not cut
slice_all(arr, n) == arr

\* Array.prototype.slice(0, n), n >= 0
slice(arr, n) == SubSeq(arr, 1, Min(n, Len(arr)))

TOTAL_LIMIT == 50

MIN_PER_CATEGORY == 3

(***************************************************************************)
(* Categorizer and Ranker of the keyword edition.                          *)
(***************************************************************************)
\* main, step 3: the forEach callback on one article; category and
\* relevanceScore are set when assignCategory finds a category
categorizeArticle(article) ==
    LET result == assignCategory(article)
    IN  [title          |-> article.title,
         link           |-> article.link,
         date           |-> article.date,
         category       |-> result.category,
         description    |-> article.description,
         summary        |-> article.summary,
         relevanceScore |-> result.relevanceScore]

\* main, step 3: keep the articles assignCategory gives a category
categorize(unique) ==
    LET assigned == [i \in 1..Len(unique) |-> categorizeArticle(unique[i])]
        hasCategory(a) == a.category # NoCategory
    IN  SelectSeq(assigned, hasCategory)

\* a final score whose timeScore is 0 when all dates are equal
calculateFinalScore_zeroWhenFlat(article, maxDate, minDate) ==
    LET articleTime == article.date
        timeRange   == maxDate - minDate
    IN  IF timeRange > 0
        THEN [num |-> article.relevanceScore * timeRange
                        + (articleTime - minDate) * 100,
              den |-> 2 * timeRange]
        ELSE [num |-> article.relevanceScore, den |-> 2]

\* calculateFinalScore: relevanceScore * 0.5 + timeScore * 0.5 as the exact
\* rational num/den; timeScore is (articleTime - minDate) / timeRange * 100,
\* or 50 when timeRange is 0.
calculateFinalScore(article, maxDate, minDate) ==
    LET articleTime == article.date
        timeRange   == maxDate - minDate
    IN  IF timeRange > 0
        THEN [num |-> article.relevanceScore * timeRange
                        + (articleTime - minDate) * 100,
              den |-> 2 * timeRange]
        ELSE [num |-> article.relevanceScore + 50, den |-> 2]

SeqMax(s) == CHOOSE m \in {s[i] : i \in 1..Len(s)} :
                 \A i \in 1..Len(s) : s[i] <= m

SeqMin(s) == CHOOSE m \in {s[i] : i \in 1..Len(s)} :
                 \A i \in 1..Len(s) : s[i] >= m

\* main, step 4: finalScore for every categorized article, then the sort
rank(categorized) ==
    IF categorized = << >> THEN << >>
    ELSE LET dates   == [i \in 1..Len(categorized) |-> categorized[i].date]
             maxDate == SeqMax(dates)
             minDate == SeqMin(dates)
             scored  == [i \in 1..Len(categorized) |->
                            [title          |-> categorized[i].title,
                             link           |-> categorized[i].link,
                             date           |-> categorized[i].date,
                             category       |-> categorized[i].category,
                             description    |-> categorized[i].description,
                             summary        |-> categorized[i].summary,
                             relevanceScore |-> categorized[i].relevanceScore,
                             finalScore     |-> calculateFinalScore(
                                 categorized[i], maxDate, minDate)]]
         IN  sort(scored, byFinalScoreDesc)

(***************************************************************************)
(* Quota Selector of the keyword edition (main, step 5).                   *)
(***************************************************************************)
\* first round: the forEach over the categories, from index c on
RECURSIVE phase1(_, _, _, _)
phase1(ranked, c, limited, used) ==
    IF c > Len(CategoryNames) THEN [limited |-> limited, used |-> used]
    ELSE LET keep(a) == a.category = CategoryNames[c] /\ a.link \notin used
             categoryArticles == sort(filter(ranked, keep), byRelevanceDesc)
             quota == Min(MIN_PER_CATEGORY, Len(categoryArticles))
         IN  phase1(ranked, c + 1,
                    limited \o SubSeq(categoryArticles, 1, quota),
                    used \cup {categoryArticles[i].link : i \in 1..quota})

\* second round: fill up to TOTAL_LIMIT in finalScore order
phase2(ranked, limited, used) ==
    LET remaining == TOTAL_LIMIT - Len(limited)
        unused(a) == a.link \notin used
    IN  limited \o slice(filter(ranked, unused), remaining)

selectQuota(ranked) ==
    LET first == phase1(ranked, 1, << >>, {})
    IN  phase2(ranked, first.limited, first.used)

(***************************************************************************)
(* Feed configuration.  RSS_SOURCES lists the first URL of the first       *)
(* categories of the configuration; a run polls the first NumFeeds.        *)
(***************************************************************************)
RSS_SOURCES == <<
    [category |-> "General",       url |-> "https://techcrunch.com/feed/"],
    [category |-> "Metal",         url |-> "https://chipsandcheese.com/feed/"],
    [category |-> "NonMetal",      url |-> "https://www.technologyreview.com/feed/"],
    [category |-> "AntiCorrosion", url |-> "https://www.european-coatings.com/rss"] >>

NumFeeds == 2

Feeds == 1..NumFeeds

Editions == {"basic", "optimized", "keyword"}

BATCH_SIZE == 3

RETRIES == 3

BACKOFF_BASE_MS == 3000

BATCH_PAUSE_MS == 1000

(***************************************************************************)
(* The program state.                                                      *)
(***************************************************************************)
VARIABLES
    edition,             \* which script runs
    env,                 \* process.env: the credentials and AI_PROVIDER
    remote,              \* what each feed URL answers in this run
    now,                 \* the instant new Date() yields
    faults,              \* how many non-success answers the provider may still give
    pc,                  \* position of main
    results,             \* settled value of each fetchRSS promise, or Pending
    allArticles,
    successCount,
    failCount,
    uniqueArticles,
    categorizedArticles,
    limitedArticles,
    batchPos,            \* the loop variable i of generateSummariesBatch
    calls,               \* summarizer call per article of limitedArticles
    lastResponse,        \* the provider answer handled last
    pauses,              \* the delays between batches, in ms
    snapshot,            \* content of data/news.json
    writes,              \* number of completed writeFileSync calls
    exitCode,
    arg,                 \* argument of the function applied on its own
    ret                  \* its result

vars == << edition, env, remote, now, faults, pc, results, allArticles,
           successCount, failCount, uniqueArticles, categorizedArticles,
           limitedArticles, batchPos, calls, lastResponse, pauses, snapshot,
           writes, exitCode, arg, ret >>

worldVars == << edition, env, remote, now >>

fetchVars == << results, allArticles, successCount, failCount >>

summaryVars == << batchPos, calls, lastResponse, pauses, faults >>

outVars == << snapshot, writes, exitCode >>

probeVars == << arg, ret >>

Pending == [settled |-> FALSE, value |-> << >>]

Settled(v) == [settled |-> TRUE, value |-> v]

IdleCall == [st |-> "idle", attempt |-> 0, requests |-> 0, waits |-> << >>]

NoResponse == [idx |-> 0, attempt |-> 0, outcome |-> [kind |-> "none", status |-> 0]]

PreviousSnapshot == [totalArticles |-> 0, categories |-> << >>, articles |-> << >>]

PartialSnapshot == [totalArticles |-> -1, categories |-> << >>, articles |-> << >>]

NoArg == [article |-> [title |-> "", description |-> ""], category |-> ""]

NoRet == -1

\* the state main starts in, for a given edition, environment and outside world
Machine(ed, e, rem, t, budget) ==
    /\ edition = ed
    /\ env = e
    /\ remote = rem
    /\ now = t
    /\ faults = budget
    /\ pc = "fetch"
    /\ results = [f \in Feeds |-> Pending]
    /\ allArticles = << >>
    /\ successCount = 0
    /\ failCount = 0
    /\ uniqueArticles = << >>
    /\ categorizedArticles = << >>
    /\ limitedArticles = << >>
    /\ batchPos = 0
    /\ calls = << >>
    /\ lastResponse = NoResponse
    /\ pauses = << >>
    /\ snapshot = PreviousSnapshot
    /\ writes = 0
    /\ exitCode = -1

Start(ed, e, rem, t, budget) ==
    /\ Machine(ed, e, rem, t, budget)
    /\ arg = NoArg
    /\ ret = NoRet

(***************************************************************************)
(* Fetch stage.                                                            *)
(***************************************************************************)
\* a forEach that ends at the first feed without articles
RECURSIVE collectLoop_stopAtFailure(_, _, _)
collectLoop_stopAtFailure(res, f, acc) ==
    IF f > NumFeeds THEN acc
    ELSE IF Len(res[f].value) > 0
         THEN collectLoop_stopAtFailure(res, f + 1,
                  [all     |-> acc.all \o res[f].value,
                   success |-> acc.success + 1,
                   fail    |-> acc.fail])
         ELSE [all     |-> acc.all,
               success |-> acc.success,
               fail    |-> acc.fail + 1 + (NumFeeds - f)]

\* results.forEach of fetchAllRSS, over the settled results from index f on
RECURSIVE collectLoop(_, _, _)
collectLoop(res, f, acc) ==
    IF f > NumFeeds THEN acc
    ELSE IF Len(res[f].value) > 0
         THEN collectLoop(res, f + 1,
                  [all     |-> acc.all \o res[f].value,
                   success |-> acc.success + 1,
                   fail    |-> acc.fail])
         ELSE collectLoop(res, f + 1,
                  [all     |-> acc.all,
                   success |-> acc.success,
                   fail    |-> acc.fail + 1])

\* a fetch stage that keeps the results in the order in which the calls
\* settle: the result of feed f goes to the first free place
FetchFeed_completionOrder(f) ==
    /\ pc = "fetch"
    /\ \A g \in Feeds : results[g].settled => results[g].feed # f
    /\ LET articles == fetchRSS(edition, remote[f], RSS_SOURCES[f].category, now)
           place    == IF edition = "basic" THEN f
                       ELSE 1 + Cardinality({g \in Feeds : results[g].settled})
       IN  /\ results' = [results EXCEPT ![place] =
                              [settled |-> TRUE, value |-> articles, feed |-> f]]
           /\ IF edition = "basic"
              THEN /\ \A g \in 1..(f - 1) : results[g].settled
                   /\ allArticles' = allArticles \o articles
                   /\ successCount' = successCount + (IF Len(articles) > 0 THEN 1 ELSE 0)
                   /\ failCount' = failCount + (IF Len(articles) > 0 THEN 0 ELSE 1)
                   /\ pc' = IF f = NumFeeds THEN "dedup" ELSE "fetch"
              ELSE UNCHANGED << allArticles, successCount, failCount, pc >>
    /\ UNCHANGED << worldVars, faults, uniqueArticles, categorizedArticles,
                    limitedArticles, batchPos, calls, lastResponse, pauses,
                    outVars, probeVars >>

\* One fetchRSS call settles.  The basic edition awaits the feeds one after
\* the other and appends as it goes; the other editions start every fetch
\* and the fetches settle in any order.
FetchFeed(f) ==
    /\ pc = "fetch"
    /\ ~results[f].settled
    /\ LET articles == fetchRSS(edition, remote[f], RSS_SOURCES[f].category, now)
       IN  /\ results' = [results EXCEPT ![f] = Settled(articles)]
           /\ IF edition = "basic"
              THEN /\ \A g \in 1..(f - 1) : results[g].settled
                   /\ allArticles' = allArticles \o articles
                   /\ successCount' = successCount + (IF Len(articles) > 0 THEN 1 ELSE 0)
                   /\ failCount' = failCount + (IF Len(articles) > 0 THEN 0 ELSE 1)
                   /\ pc' = IF f = NumFeeds THEN "dedup" ELSE "fetch"
              ELSE UNCHANGED << allArticles, successCount, failCount, pc >>
    /\ UNCHANGED << worldVars, faults, uniqueArticles, categorizedArticles,
                    limitedArticles, batchPos, calls, lastResponse, pauses,
                    outVars, probeVars >>

\* Promise.allSettled resolves; the results are concatenated in promise order.
CollectFeeds ==
    /\ pc = "fetch"
    /\ edition # "basic"
    /\ \A f \in Feeds : results[f].settled
    /\ LET acc == collectLoop(results, 1, [all |-> << >>, success |-> 0, fail |-> 0])
       IN  /\ allArticles' = acc.all
           /\ successCount' = acc.success
           /\ failCount' = acc.fail
    /\ pc' = "dedup"
    /\ UNCHANGED << worldVars, faults, results, uniqueArticles,
                    categorizedArticles, limitedArticles, batchPos, calls,
                    lastResponse, pauses, outVars, probeVars >>

(***************************************************************************)
(* Dedup, categorize, rank, select.                                        *)
(***************************************************************************)
Dedup ==
    /\ pc = "dedup"
    /\ uniqueArticles' = Deduplicate(allArticles)
    /\ pc' = IF edition = "keyword" THEN "categorize" ELSE "rank"
    /\ UNCHANGED << worldVars, fetchVars, categorizedArticles, limitedArticles,
                    summaryVars, outVars, probeVars >>

Categorize ==
    /\ pc = "categorize"
    /\ categorizedArticles' = categorize(uniqueArticles)
    /\ pc' = "rank"
    /\ UNCHANGED << worldVars, fetchVars, uniqueArticles, limitedArticles,
                    summaryVars, outVars, probeVars >>

\* keyword edition: finalScore and sort; other editions: sort by date
Rank ==
    /\ pc = "rank"
    /\ IF edition = "keyword"
       THEN /\ categorizedArticles' = rank(categorizedArticles)
            /\ UNCHANGED uniqueArticles
       ELSE /\ uniqueArticles' = sort(uniqueArticles, byDateDesc)
            /\ UNCHANGED categorizedArticles
    /\ pc' = "select"
    /\ UNCHANGED << worldVars, fetchVars, limitedArticles, summaryVars,
                    outVars, probeVars >>

Select ==
    /\ pc = "select"
    /\ limitedArticles' = IF edition = "keyword"
                          THEN selectQuota(categorizedArticles)
                          ELSE slice(uniqueArticles, TOTAL_LIMIT)
    /\ calls' = [k \in 1..Len(limitedArticles') |-> IdleCall]
    /\ pc' = IF edition = "basic" THEN "write" ELSE "summarize"
    /\ UNCHANGED << worldVars, fetchVars, uniqueArticles, categorizedArticles,
                    batchPos, lastResponse, pauses, faults, outVars, probeVars >>

(***************************************************************************)
(* Summarizer.  A provider answer is [kind, status]:                        *)
(*   "ok"           2xx, body with the expected text field                 *)
(*   "nofield"      2xx, JSON body without the expected field              *)
(*   "badtype"      2xx, the field is there but .trim() raises TypeError   *)
(*   "badjson"      2xx, response.json() rejects                           *)
(*   "status"       non-2xx with the given status, body readable           *)
(*   "statusNoBody" non-2xx with the given status, response.text() rejects *)
(*   "neterr"       fetch rejects                                          *)
(***************************************************************************)
Outcomes ==
    {[kind |-> k, status |-> 200] : k \in {"ok", "nofield", "badtype", "badjson"}}
    \cup {[kind |-> "status", status |-> s] : s \in {429, 503, 500}}
    \cup {[kind |-> "statusNoBody", status |-> s] : s \in {429, 500}}
    \cup {[kind |-> "neterr", status |-> 0]}

\* the text the provider returns in a well-formed answer
PROVIDER_TEXT == " AI summary "

\* a backoff that does not double
waitTime_flat(attempt) == BACKOFF_BASE_MS

\* Math.pow(2, attempt) * 3000
waitTime(attempt) == (2 ^ attempt) * BACKOFF_BASE_MS

Return(summary) == [next |-> "return", summary |-> summary, wait |-> 0]

Retry(attempt) == [next |-> "retry", summary |-> "", wait |-> waitTime(attempt)]

\* an exception that leaves the summarizer function
Throw == [next |-> "throw", summary |-> "", wait |-> 0]

\* a catch block that rethrows once the attempts are used up
catchBlock_rethrow(attempt, text) ==
    IF attempt < RETRIES - 1 THEN Retry(attempt) ELSE Throw

\* the catch block of the retry loops
catchBlock(attempt, text) ==
    IF attempt < RETRIES - 1 THEN Retry(attempt) ELSE Return(fallbackSummary(text))

\* one iteration of the loop of generateSummaryWithDoubao, once fetch settled
doubaoAttempt(attempt, r, text) ==
    IF r.kind = "neterr" THEN catchBlock(attempt, text)
    ELSE IF r.kind \in {"status", "statusNoBody"}
         THEN IF r.status \in {429, 503} /\ attempt < RETRIES - 1
              THEN Retry(attempt)
              ELSE catchBlock(attempt, text)       \* throw new Error(..)
    ELSE IF r.kind = "ok" THEN Return(trim(PROVIDER_TEXT))
    ELSE catchBlock(attempt, text)                 \* json() rejects, throw, TypeError

\* one iteration of the loop of generateSummaryWithDeepSeek
deepSeekAttempt(attempt, r, text) ==
    IF r.kind = "neterr" THEN catchBlock(attempt, text)
    ELSE IF r.kind \in {"status", "statusNoBody"}
         THEN IF r.status \in {429, 503} /\ attempt < RETRIES - 1
              THEN Retry(attempt)
              ELSE catchBlock(attempt, text)
    ELSE IF r.kind = "ok" THEN Return(trim(PROVIDER_TEXT))
    ELSE catchBlock(attempt, text)

\* one iteration of the loop of generateSummaryWithQwen
qwenAttempt(attempt, r, text) ==
    IF r.kind = "neterr" THEN catchBlock(attempt, text)
    ELSE IF r.kind = "statusNoBody" THEN catchBlock(attempt, text)
    ELSE IF r.kind = "status"
         THEN IF r.status \in {429, 503} /\ attempt < RETRIES - 1
              THEN Retry(attempt)
              ELSE Return(fallbackSummary(text))
    ELSE IF r.kind = "ok" THEN Return(trim(PROVIDER_TEXT))
    ELSE IF r.kind = "nofield" THEN Return(fallbackSummary(text))
    ELSE catchBlock(attempt, text)                 \* json() rejects, TypeError

\* the provider a call goes to
Provider ==
    IF edition = "keyword" THEN "qwen"
    ELSE IF env.AI_PROVIDER = "deepseek" THEN "deepseek" ELSE "doubao"

providerKey ==
    IF Provider = "qwen" THEN env.QWEN_API_KEY
    ELSE IF Provider = "deepseek" THEN env.DEEPSEEK_API_KEY
    ELSE env.DOUBAO_API_KEY

providerAttempt(attempt, r, text) ==
    IF Provider = "qwen" THEN qwenAttempt(attempt, r, text)
    ELSE IF Provider = "deepseek" THEN deepSeekAttempt(attempt, r, text)
    ELSE doubaoAttempt(attempt, r, text)

\* the checks generateSummary / generateSummaryWith.. make before any request
returnsWithoutRequest(text) == providerKey = "" \/ isChinese(text)

\* main's credential test (optimized) or generateSummariesBatch's (keyword)
anyCredential ==
    IF edition = "keyword" THEN env.QWEN_API_KEY # ""
    ELSE env.DOUBAO_API_KEY # "" \/ env.DEEPSEEK_API_KEY # ""

\* an assignment that overwrites the description as well
withSummary_alsoDescription(article, summary) ==
    [article EXCEPT !.summary = summary, !.description = summary]

\* article.summary = summary
withSummary(article, summary) == [article EXCEPT !.summary = summary]

\* a batch that takes every remaining article
BatchOf_all(i) == (i + 1)..Len(limitedArticles)

\* articles.slice(i, i + BATCH_SIZE), as positions of limitedArticles
BatchOf(i) == (i + 1)..Min(i + BATCH_SIZE, Len(limitedArticles))

\* Entry of the summary stage.  Without a credential every article gets the
\* truncated description at once.
Summarize ==
    /\ pc = "summarize"
    /\ IF ~anyCredential
       THEN /\ limitedArticles' =
                   [k \in 1..Len(limitedArticles) |->
                       withSummary(limitedArticles[k],
                                   fallbackSummary(limitedArticles[k].description))]
            /\ pc' = "write"
       ELSE /\ UNCHANGED limitedArticles
            /\ pc' = IF Len(limitedArticles) > 0 THEN "loop" ELSE "write"
    /\ batchPos' = 0
    /\ UNCHANGED << worldVars, fetchVars, uniqueArticles, categorizedArticles,
                    calls, lastResponse, pauses, faults, outVars, probeVars >>

\* batch.map(async article => ..): every call of the batch runs up to its
\* first request; a call that needs no request assigns its summary.
BatchStart ==
    /\ pc = "loop"
    /\ calls' = [k \in 1..Len(limitedArticles) |->
                   IF k \in BatchOf(batchPos)
                   THEN IF returnsWithoutRequest(limitedArticles[k].description)
                        THEN [calls[k] EXCEPT !.st = "done"]
                        ELSE [calls[k] EXCEPT !.st = "pending", !.requests = 1]
                   ELSE calls[k]]
    /\ limitedArticles' =
           [k \in 1..Len(limitedArticles) |->
               IF k \in BatchOf(batchPos)
                  /\ returnsWithoutRequest(limitedArticles[k].description)
               THEN withSummary(limitedArticles[k],
                                fallbackSummary(limitedArticles[k].description))
               ELSE limitedArticles[k]]
    /\ pc' = "batch"
    /\ UNCHANGED << worldVars, fetchVars, uniqueArticles, categorizedArticles,
                    batchPos, lastResponse, pauses, faults, outVars, probeVars >>

\* The request of call k settles with answer r and the loop body handles it.
Respond(k, r) ==
    /\ pc = "batch"
    /\ calls[k].st = "pending"
    /\ r.kind = "ok" \/ faults > 0
    /\ faults' = IF r.kind = "ok" THEN faults ELSE faults - 1
    /\ lastResponse' = [idx |-> k, attempt |-> calls[k].attempt, outcome |-> r]
    /\ LET step == providerAttempt(calls[k].attempt, r, limitedArticles[k].description)
       IN  IF step.next = "retry"
           THEN /\ calls' = [calls EXCEPT ![k].st = "backoff",
                                          ![k].waits = Append(@, step.wait)]
                /\ UNCHANGED limitedArticles
           ELSE IF step.next = "throw"
           THEN /\ calls' = [calls EXCEPT ![k].st = "rejected"]
                /\ UNCHANGED limitedArticles
           ELSE /\ calls' = [calls EXCEPT ![k].st = "done"]
                /\ limitedArticles' =
                       [limitedArticles EXCEPT ![k] = withSummary(@, step.summary)]
    /\ UNCHANGED << worldVars, fetchVars, uniqueArticles, categorizedArticles,
                    batchPos, pauses, pc, outVars, probeVars >>

\* The backoff delay of call k is over: next iteration, next request.
BackoffElapsed(k) ==
    /\ pc = "batch"
    /\ calls[k].st = "backoff"
    /\ calls' = [calls EXCEPT ![k].st = "pending",
                              ![k].attempt = @ + 1,
                              ![k].requests = @ + 1]
    /\ UNCHANGED << worldVars, fetchVars, uniqueArticles, categorizedArticles,
                    limitedArticles, batchPos, lastResponse, pauses, faults, pc,
                    outVars, probeVars >>

\* a join that resolves with the first call of the batch that returns
BatchJoin_any ==
    /\ pc = "batch"
    /\ \/ \E k \in BatchOf(batchPos) : calls[k].st = "done"
       \/ \E k \in BatchOf(batchPos) : calls[k].st = "rejected"
    /\ IF \E k \in BatchOf(batchPos) : calls[k].st = "rejected"
       THEN /\ pc' = "exit"
            /\ exitCode' = 1
            /\ UNCHANGED << batchPos, pauses >>
       ELSE IF batchPos + BATCH_SIZE < Len(limitedArticles)
       THEN /\ pauses' = Append(pauses, BATCH_PAUSE_MS)
            /\ pc' = "pause"
            /\ UNCHANGED << batchPos, exitCode >>
       ELSE /\ batchPos' = batchPos + BATCH_SIZE
            /\ pc' = "write"
            /\ UNCHANGED << pauses, exitCode >>
    /\ UNCHANGED << worldVars, fetchVars, uniqueArticles, categorizedArticles,
                    limitedArticles, calls, lastResponse, faults, snapshot,
                    writes, probeVars >>

\* Promise.all of the batch settles: it resolves when every call has
\* returned, and rejects as soon as one call rejects; the rejection leaves
\* generateSummariesBatch and main, and main().catch exits with status 1.
BatchJoin ==
    /\ pc = "batch"
    /\ \/ \A k \in BatchOf(batchPos) : calls[k].st = "done"
       \/ \E k \in BatchOf(batchPos) : calls[k].st = "rejected"
    /\ IF \E k \in BatchOf(batchPos) : calls[k].st = "rejected"
       THEN /\ pc' = "exit"
            /\ exitCode' = 1
            /\ UNCHANGED << batchPos, pauses >>
       ELSE IF batchPos + BATCH_SIZE < Len(limitedArticles)
       THEN /\ pauses' = Append(pauses, BATCH_PAUSE_MS)
            /\ pc' = "pause"
            /\ UNCHANGED << batchPos, exitCode >>
       ELSE /\ batchPos' = batchPos + BATCH_SIZE
            /\ pc' = "write"
            /\ UNCHANGED << pauses, exitCode >>
    /\ UNCHANGED << worldVars, fetchVars, uniqueArticles, categorizedArticles,
                    limitedArticles, calls, lastResponse, faults, snapshot,
                    writes, probeVars >>

\* delay(1000) between two batches is over.
PauseElapsed ==
    /\ pc = "pause"
    /\ batchPos' = batchPos + BATCH_SIZE
    /\ pc' = "loop"
    /\ UNCHANGED << worldVars, fetchVars, uniqueArticles, categorizedArticles,
                    limitedArticles, calls, lastResponse, pauses, faults,
                    outVars, probeVars >>

(***************************************************************************)
(* Snapshot Writer and process exit.                                       *)
(***************************************************************************)
snapshotCategories ==
    IF edition = "keyword" THEN CategoryNames
    ELSE [f \in Feeds |-> RSS_SOURCES[f].category]

\* outputData is built and the data directory is made sure of: existsSync,
\* and mkdirSync when it is missing, succeed (ok) or mkdirSync raises; a raise
\* rejects main and the process exits with status 1.
EnsureDir(ok) ==
    /\ pc = "write"
    /\ IF ok
       THEN /\ pc' = "save"
            /\ UNCHANGED exitCode
       ELSE /\ pc' = "exit"
            /\ exitCode' = 1
    /\ UNCHANGED << worldVars, fetchVars, uniqueArticles, categorizedArticles,
                    limitedArticles, summaryVars, snapshot, writes, probeVars >>

\* writeFileSync succeeds (ok) or raises, with the file untouched or already
\* truncated; a raise rejects main and the process exits with status 1.
WriteSnapshot(ok) ==
    /\ pc = "save"
    /\ IF ok
       THEN /\ snapshot' = [totalArticles |-> Len(limitedArticles),
                            categories    |-> snapshotCategories,
                            articles      |-> limitedArticles]
            /\ writes' = writes + 1
            /\ exitCode' = 0
       ELSE /\ snapshot' \in {snapshot, PartialSnapshot}
            /\ UNCHANGED writes
            /\ exitCode' = 1
    /\ pc' = "exit"
    /\ UNCHANGED << worldVars, fetchVars, uniqueArticles, categorizedArticles,
                    limitedArticles, summaryVars, probeVars >>

Next ==
    \/ \E f \in Feeds : FetchFeed(f)
    \/ CollectFeeds
    \/ Dedup
    \/ Categorize
    \/ Rank
    \/ Select
    \/ Summarize
    \/ BatchStart
    \/ \E k \in 1..Len(limitedArticles) : \E r \in Outcomes : Respond(k, r)
    \/ \E k \in 1..Len(limitedArticles) : BackoffElapsed(k)
    \/ BatchJoin
    \/ PauseElapsed
    \/ \E ok \in BOOLEAN : EnsureDir(ok)
    \/ \E ok \in BOOLEAN : WriteSnapshot(ok)

(***************************************************************************)
(* The outside world of a run: what the feeds answer, the environment, the *)
(* clock, and how many failures the summarization provider produces.       *)
(***************************************************************************)
Item(title, link, text, t) ==
    [title |-> title, link |-> link, contentSnippet |-> text, content |-> "",
     description |-> "", pubDate |-> DateAt(t), isoDate |-> AbsentDate]

Env(qwen, doubao, deepseek, provider) ==
    [QWEN_API_KEY |-> qwen, DOUBAO_API_KEY |-> doubao,
     DEEPSEEK_API_KEY |-> deepseek, AI_PROVIDER |-> provider]

World(ed, e, rem, budget) ==
    [edition |-> ed, env |-> e, remote |-> rem, budget |-> budget]

FailedFeed == [ok |-> FALSE, items |-> << >>]

FeedOf(items) == [ok |-> TRUE, items |-> items]

SeqsUpTo(S, n) == UNION {[1..m -> S] : m \in 0..n}

RECURSIVE repeat(_, _)
repeat(s, n) == IF n = 0 THEN "" ELSE s \o repeat(s, n - 1)

\* the instant of the run
NOW == 9

NoKeys == Env("", "", "", "doubao")

Envs ==
    {Env(q, d, s, p) : q \in {"", "sk-q"}, d \in {"", "sk-d"},
                       s \in {"", " sk-s\n"}, p \in {"doubao", "deepseek"}}

\* the environments that differ for the edition: the basic edition reads no
\* variable, the keyword edition reads QWEN_API_KEY, and the optimized edition
\* reads the key of the other provider only to decide whether any is set
EnvsOf(ed) ==
    IF ed = "basic" THEN {NoKeys}
    ELSE IF ed = "keyword" THEN {e \in Envs : e.DOUBAO_API_KEY = "" /\ e.DEEPSEEK_API_KEY = ""
                                              /\ e.AI_PROVIDER = "doubao"}
    ELSE {e \in Envs : e.QWEN_API_KEY = ""
                        /\ (e.DOUBAO_API_KEY = "" \/ e.DEEPSEEK_API_KEY = "")}

(* Small feeds: every list of at most MaxItems items of ItemPool. *)
MaxItems == 2

ItemList ==
    << Item(" Steel frame ", "u1", "<p>new <b>alloy</b></p>", 3),
       Item("Coating plant", " u1 ", "paint line", 2),
       Item("Paint shop", "u2", "", 1),
       Item("Rust on steel", "", "", 2),
       Item("Steel coating", "u2", "Chip maker", 3),
       Item("Steel frame", "u3", "GPU prices", 1) >>

ItemPool == {ItemList[i] : i \in 1..Len(ItemList)}

PoolBodies == {FailedFeed} \cup {FeedOf(s) : s \in SeqsUpTo(ItemPool, MaxItems)}

SmallWorlds ==
    {World(ed, NoKeys, rem, 0) : ed \in Editions, rem \in [Feeds -> PoolBodies]}

(* Feeds for the summary stage: the first n items of SummaryItems. *)
MaxArticles == 4

MaxFaults == 3

LongText == "Steel " \o repeat("0123456789", 16)

\* a text of more than 150 characters, some of them Chinese
ChineseText == "resin #### " \o repeat("0123456789", 16)

SummaryItem(n) ==
    CASE n % 4 = 1 -> Item("Steel " \o ToString(n), "s" \o ToString(n), LongText, n)
      [] n % 4 = 2 -> Item("Alloy " \o ToString(n), "s" \o ToString(n), "short rust", n)
      [] n % 4 = 3 -> Item("Paint " \o ToString(n), "s" \o ToString(n), "", n)
      [] OTHER     -> Item("Resin " \o ToString(n), "s" \o ToString(n), ChineseText, n)

SummaryBody(n) == FeedOf([i \in 1..n |-> SummaryItem(i)])

SummaryRemote(n) == [f \in Feeds |-> IF f = 1 THEN SummaryBody(n) ELSE FailedFeed]

SummaryWorlds ==
    {World(ed, e, SummaryRemote(n), b) :
        ed \in Editions, e \in Envs, n \in 0..MaxArticles, b \in 0..MaxFaults}

InitOf(worlds) ==
    \E w \in worlds : Start(w.edition, w.env, w.remote, NOW, w.budget)

\* the pipeline on small feeds, and the summary stage on MaxArticles articles
Init ==
    InitOf(SmallWorlds
           \cup {w \in SummaryWorlds : /\ w.env \in EnvsOf(w.edition)
                                       /\ w.budget <= 1
                                       /\ w.remote = SummaryRemote(MaxArticles)})

Spec == Init /\ [][Next]_vars

\* the summary stage in which at most MaxFaults requests fail, in any of the
\* ways of Outcomes; every request is answered and every timer fires
InitSummarizer ==
    InitOf({w \in SummaryWorlds : w.env \in EnvsOf(w.edition) /\ w.budget = MaxFaults})

SpecSummarizer ==
    /\ InitSummarizer
    /\ [][Next]_vars
    /\ WF_vars(\E k \in 1..Len(calls) : \E r \in Outcomes : Respond(k, r))
    /\ WF_vars(\E k \in 1..Len(calls) : BackoffElapsed(k))

(* Large feeds: feed f lists n consecutive items of an endless series, the
   feeds overlapping; the links are all different or all empty. *)
MaxBulk == 35

BulkWord(i) ==
    CASE i % 3 = 0 -> "Steel"
      [] i % 3 = 1 -> "Paint"
      [] OTHER     -> "Odor"

BulkItem(i, emptyLinks) ==
    Item(BulkWord(i) \o " " \o ToString(i),
         IF emptyLinks THEN "" ELSE "b" \o ToString(i), "", i % 7)

BulkBody(f, n, emptyLinks) ==
    FeedOf([i \in 1..n |-> BulkItem((f - 1) * (MaxBulk \div 2) + i, emptyLinks)])

BulkSizes == {0, MaxBulk \div 2, MaxBulk}

BulkWorlds ==
    {World(ed, e, [f \in Feeds |-> BulkBody(f, size[f], emptyLinks)], 0) :
        ed \in Editions, e \in {NoKeys, Env("sk-q", "sk-d", "", "doubao")},
        size \in [Feeds -> BulkSizes], emptyLinks \in BOOLEAN}

InitCap ==
    InitOf(BulkWorlds
           \cup {w \in SummaryWorlds : /\ w.env \in EnvsOf(w.edition)
                                       /\ w.budget = 1
                                       /\ w.remote = SummaryRemote(MaxArticles)})

SpecCap == InitCap /\ [][Next]_vars

(* Lists picked from a master list and dealt to the feeds: a world takes at
   most MaxPicked items of the master list, in its order, and hands feed 1
   the first ones, feed 2 the next ones and so on; a feed left without items
   either fails or answers an empty list. *)
MaxPicked == 4

Picked(master) ==
    {[k \in 1..Cardinality(I) |-> master[Nth(I, k)]] :
        I \in {J \in SUBSET (1..Len(master)) : Cardinality(J) <= MaxPicked}}

Cuts(len) ==
    {c \in [0..NumFeeds -> 0..len] :
        c[0] = 0 /\ c[NumFeeds] = len /\ \A f \in Feeds : c[f - 1] <= c[f]}

Dealt(s, c, failing) ==
    [f \in Feeds |-> IF c[f - 1] = c[f] /\ failing THEN FailedFeed
                     ELSE FeedOf(SubSeq(s, c[f - 1] + 1, c[f]))]

PickedWorlds(master, editions) ==
    UNION {{World(ed, NoKeys, Dealt(s, c, failing), 0) :
                ed \in editions, c \in Cuts(Len(s)), failing \in BOOLEAN} :
           s \in Picked(master)}

(* Fetch and dedup on feeds whose items share titles. *)
DedupList ==
    << Item("EV Battery News", "a1", "from source one", 1),
       Item("ev battery news", "a3", "", 3),
       Item("EV Battery News", "a2", "from source two", 2),
       Item("", "a4", "untitled one", 1),
       Item(" ", "a5", "untitled two", 2),
       Item("EV Battery News ", "a6", "from source three", 3) >>

NextDedup ==
    \/ \E f \in Feeds : FetchFeed(f)
    \/ CollectFeeds
    \/ Dedup

SpecDedup == InitOf(PickedWorlds(DedupList, Editions)) /\ [][NextDedup]_vars

(* The Categorizer on picked lists, and the summary stage as in Init. *)
InitCategory ==
    InitOf(PickedWorlds(ItemList, {"keyword"})
           \cup {w \in SummaryWorlds : /\ w.env \in EnvsOf(w.edition)
                                       /\ w.budget <= 1
                                       /\ w.remote = SummaryRemote(MaxArticles)})

SpecCategory == InitCategory /\ [][Next]_vars

(* Fetch on feeds whose items carry a publish date, only an ISO date, no
   date at all, or a publish date that new Date(..) cannot parse. *)
FetchList ==
    << [Item("Steel beam", "f1", "alloy", 3) EXCEPT !.isoDate = DateAt(3)],
       [Item("Paint line", "f2", "coating", 0) EXCEPT !.pubDate = AbsentDate,
                                                      !.isoDate = DateAt(2)],
       [Item("Odor test", "f3", "cabin air", 0) EXCEPT !.pubDate = AbsentDate],
       [Item("Rust report", "f4", "corrosion", 0) EXCEPT !.pubDate = InvalidDate],
       Item("Resin price", "f5", "polymer", 5),
       [Item("Alloy wheel", "f6", "<b>metal</b>", 0) EXCEPT !.pubDate = AbsentDate] >>

SpecFetch == InitOf(PickedWorlds(FetchList, Editions)) /\ [][NextDedup]_vars

(* calculateRelevanceScore applied to one article and one category. *)
ScoreTitles ==
    { "", "Steel frame", "STEEL Alloy Metal Plastic", "Chip coating",
      "Anti-corrosion coating paint rust", "Lightweight metal part",
      "Carbon", "VOC and odor" }

ScoreDescriptions ==
    { "", "aluminum alloy", "new GPU processor", "corrosion of steel",
      "fiber glass and resin", "Low-odor cabin air, non-toxic" }

ScoreArgs ==
    {[article |-> [title |-> t, description |-> d], category |-> c] :
        t \in ScoreTitles, d \in ScoreDescriptions,
        c \in {CategoryNames[i] : i \in 1..Len(CategoryNames)} \cup {"General"}}

ApplyScore ==
    /\ ret = NoRet
    /\ ret' = calculateRelevanceScore(arg.article, arg.category)
    /\ UNCHANGED << worldVars, fetchVars, uniqueArticles, categorizedArticles,
                    limitedArticles, summaryVars, pc, outVars, arg >>

InitScore ==
    /\ Machine("keyword", NoKeys, [f \in Feeds |-> FailedFeed], NOW, 0)
    /\ arg \in ScoreArgs
    /\ ret = NoRet

SpecScore == InitScore /\ [][ApplyScore]_vars

(***************************************************************************)
(* Properties.                                                             *)
(***************************************************************************)
Indexes(s) == 1..Len(s)

\* C1: in every edition the selected list, and the article list of the
\* written snapshot, hold at most 50 articles.
C1_QuotaCap ==
    /\ Len(limitedArticles) <= 50
    /\ writes > 0 => /\ Len(snapshot.articles) <= 50
                     /\ snapshot.totalArticles <= 50

C1_Witness ==
    /\ pc = "exit"
    /\ writes = 1
    /\ edition = "keyword"
    /\ Len(categorizedArticles) > 50
    /\ Len(snapshot.articles) = 50

CountOf(list, category) ==
    Cardinality({i \in Indexes(list) : list[i].category = category})

\* the Quota Selector of the keyword edition has run
Selected ==
    /\ edition = "keyword"
    /\ pc \in {"summarize", "loop", "batch", "pause", "write", "save", "exit"}

\* C2: a configured category with at least 3 categorized candidates has at
\* least 3 articles in the selected list.
C2_CategoryMinimum ==
    Selected =>
        \A c \in Indexes(CategoryNames) :
            CountOf(categorizedArticles, CategoryNames[c]) >= 3
                => CountOf(limitedArticles, CategoryNames[c]) >= 3

\* the Categorizer of the keyword edition has run
Categorized == edition = "keyword" /\ pc \notin {"fetch", "dedup", "categorize"}

\* the scores of an article in the configured categories, in configuration order
RECURSIVE ScoresFrom(_, _)
ScoresFrom(article, c) ==
    IF c > Len(CategoryNames) THEN << >>
    ELSE <<calculateRelevanceScore(article, CategoryNames[c])>>
             \o ScoresFrom(article, c + 1)

Highest(scores) ==
    CHOOSE m \in {scores[c] : c \in Indexes(scores)} :
        \A c \in Indexes(scores) : scores[c] <= m

\* the first position that holds the highest score
FirstHighest(scores) ==
    CHOOSE c \in Indexes(scores) :
        /\ scores[c] = Highest(scores)
        /\ \A d \in 1..(c - 1) : scores[d] < Highest(scores)

TitlesOf(list) == {list[i].title : i \in Indexes(list)}

\* what Categorize must have left in categorizedArticles
RightlyCategorized ==
    /\ TitlesOf(categorizedArticles) \subseteq TitlesOf(uniqueArticles)
    /\ Len(categorizedArticles) <= Len(uniqueArticles)
    /\ \A i \in Indexes(uniqueArticles) :
           LET u      == uniqueArticles[i]
               scores == ScoresFrom(u, 1)
           IN  IF Highest(scores) = 0
               THEN u.title \notin TitlesOf(categorizedArticles)
               ELSE \E k \in Indexes(categorizedArticles) :
                        /\ categorizedArticles[k].title = u.title
                        /\ categorizedArticles[k].category
                               = CategoryNames[FirstHighest(scores)]
                        /\ categorizedArticles[k].relevanceScore = Highest(scores)

\* the later lists hold categorized articles only, with their category
FromCategorized ==
    /\ \A k \in Indexes(limitedArticles) :
           \E j \in Indexes(categorizedArticles) :
               [limitedArticles[k] EXCEPT !.summary = ""]
                   = [categorizedArticles[j] EXCEPT !.summary = ""]
    /\ writes > 0 =>
           \A k \in Indexes(snapshot.articles) :
               \E j \in Indexes(limitedArticles) :
                   snapshot.articles[k] = limitedArticles[j]

\* C6: when the Categorizer has run, a deduplicated article whose highest
\* score is positive is kept with the first category that reaches that score;
\* one whose highest score is 0 is dropped.  From then on the categorized set
\* keeps its members and their categories, and the selected list and the
\* snapshot hold members of it only.
C6_BestCategory ==
    /\ [](edition = "keyword" /\ pc = "rank" => RightlyCategorized)
    /\ [](Categorized => FromCategorized)
    /\ [][Categorized =>
             /\ uniqueArticles' = uniqueArticles
             /\ {<<categorizedArticles[k].title, categorizedArticles[k].category>> :
                     k \in Indexes(categorizedArticles)}
                = {<<categorizedArticles'[k].title, categorizedArticles'[k].category>> :
                     k \in Indexes(categorizedArticles')}]_vars

BestScore(article) == Highest(ScoresFrom(article, 1))

C6_Witness ==
    /\ Categorized
    /\ pc = "exit"
    /\ writes = 1
    /\ \E i \in Indexes(uniqueArticles) : BestScore(uniqueArticles[i]) = 0
    /\ \E i \in Indexes(uniqueArticles) :
           /\ BestScore(uniqueArticles[i]) > 0
           /\ \E c, d \in Indexes(CategoryNames) :
                  /\ c < d
                  /\ ScoresFrom(uniqueArticles[i], 1)[c] = BestScore(uniqueArticles[i])
                  /\ ScoresFrom(uniqueArticles[i], 1)[d] = BestScore(uniqueArticles[i])
                  /\ \E k \in Indexes(snapshot.articles) :
                         /\ snapshot.articles[k].title = uniqueArticles[i].title
                         /\ snapshot.articles[k].category = CategoryNames[c]

\* Dedup has run and nothing has reordered its output yet
JustDeduplicated == pc \in {"categorize", "rank"}

\* C3: the Deduplicator's output is no longer than its input, holds no two
\* articles with the same title, and is a fixed point of the Deduplicator.
C3_DedupIdempotent ==
    JustDeduplicated =>
        /\ Len(uniqueArticles) <= Len(allArticles)
        /\ \A i, j \in Indexes(uniqueArticles) :
               i # j => uniqueArticles[i].title # uniqueArticles[j].title
        /\ Deduplicate(uniqueArticles) = uniqueArticles

C3_Witness ==
    /\ JustDeduplicated
    /\ Len(uniqueArticles) >= 2
    /\ Len(uniqueArticles) < Len(allArticles)

\* the positions of allArticles that hold the first article of their title
FirstOfTitle(all) ==
    {i \in Indexes(all) : \A j \in 1..(i - 1) : all[j].title # all[i].title}

\* C4: the output is the input restricted, in input order, to the earliest
\* article of every title (titles compared exactly); later ones are dropped.
C4_FirstOccurrenceWins ==
    JustDeduplicated =>
        /\ Len(uniqueArticles) = Cardinality(FirstOfTitle(allArticles))
        /\ \A n \in Indexes(uniqueArticles) :
               uniqueArticles[n] = allArticles[Nth(FirstOfTitle(allArticles), n)]

C4_Witness ==
    /\ JustDeduplicated
    /\ \E i, j \in Indexes(allArticles) :
           /\ i < j
           /\ allArticles[i].title = allArticles[j].title
           /\ allArticles[i] # allArticles[j]
           /\ \E n \in Indexes(uniqueArticles) : uniqueArticles[n] = allArticles[i]
    /\ \E m, n \in Indexes(uniqueArticles) :
           /\ uniqueArticles[m].title # uniqueArticles[n].title
           /\ toLowerCase(uniqueArticles[m].title) = toLowerCase(uniqueArticles[n].title)

Configured(category) ==
    \E i \in Indexes(CATEGORY_KEYWORDS) : CATEGORY_KEYWORDS[i].name = category

KeywordsOf(category) ==
    CATEGORY_KEYWORDS[CHOOSE i \in Indexes(CATEGORY_KEYWORDS) :
                          CATEGORY_KEYWORDS[i].name = category]

\* the lowercase 'title description' text of an article
SearchText(article) == toLowerCase(article.title \o " " \o article.description)

Vetoed(article, category) ==
    \E e \in Indexes(KeywordsOf(category).exclude) :
        includes(SearchText(article), KeywordsOf(category).exclude[e])

\* P: 1 for each include keyword found in the text, 2 more when the keyword
\* is also found in the title
Points(article, category) ==
    LET incl   == KeywordsOf(category).include
        found  == {i \in Indexes(incl) : includes(SearchText(article), incl[i])}
        titled == {i \in found : includes(toLowerCase(article.title), incl[i])}
    IN  Cardinality(found) + 2 * Cardinality(titled)

\* C5: calculateRelevanceScore returns a number in 0..100; for a configured
\* category it is 0 when the text contains an exclude keyword of the category
\* and min(100, 10 * P) otherwise.
C5_RelevanceScore ==
    ret # NoRet =>
        /\ ret \in 0..100
        /\ Configured(arg.category) =>
               ret = IF Vetoed(arg.article, arg.category) THEN 0
                     ELSE Min(100, 10 * Points(arg.article, arg.category))

C5_Witness ==
    /\ ret = 100
    /\ Configured(arg.category)
    /\ ~Vetoed(arg.article, arg.category)
    /\ Points(arg.article, arg.category) > 10

\* summary is description cut to 150 characters, followed by '...'
IsTruncation(summary, description) ==
    LET n == IF Len(description) < 150 THEN Len(description) ELSE 150
    IN  /\ Len(summary) = n + 3
        /\ SubSeq(summary, 1, n) = SubSeq(description, 1, n)
        /\ SubSeq(summary, n + 1, n + 3) = "..."

RateLimited(r) == r.kind \in {"status", "statusNoBody"} /\ r.status \in {429, 503}

\* C7: after an answer that is neither a success nor a 429/503 response, the
\* call makes no further request and has returned the truncated description.
C7_RetryOnlyWhenRateLimited ==
    LET k == lastResponse.idx
        r == lastResponse.outcome
    IN  (k # 0 /\ r.kind # "ok" /\ ~RateLimited(r)) =>
            /\ calls[k].st = "done"
            /\ calls[k].requests = lastResponse.attempt + 1
            /\ IsTruncation(limitedArticles[k].summary, limitedArticles[k].description)

\* the requests and waits of one summarizer call are a prefix of
\* request, 3 s, request, 6 s, request
CallWithinBudget(k) ==
    /\ calls[k].requests <= 3
    /\ calls[k].waits = SubSeq(<<3000, 6000>>, 1, Len(calls[k].waits))
    /\ calls[k].st = "pending" => Len(calls[k].waits) = calls[k].requests - 1
    /\ calls[k].st = "backoff" => Len(calls[k].waits) = calls[k].requests
    /\ calls[k].st = "done" =>
           /\ Len(calls[k].waits) = Max(calls[k].requests, 1) - 1
           /\ limitedArticles[k].summary # ""
    /\ calls[k].st # "rejected"

\* some summarizer call has started and not returned
InFlight == \E k \in Indexes(calls) : calls[k].st \in {"pending", "backoff"}

\* C8: a summarizer call issues at most 3 requests, waits 3 s before the
\* second and 6 s before the third, does not wait after its last request,
\* and, once started, returns.
C8_BoundedRetry ==
    /\ [](\A k \in Indexes(calls) : CallWithinBudget(k))
    /\ InFlight ~> ~InFlight

C8_Witness ==
    \E k \in Indexes(calls) :
        /\ calls[k].st = "done"
        /\ calls[k].requests = 3
        /\ calls[k].waits = <<3000, 6000>>
        /\ IsTruncation(limitedArticles[k].summary, limitedArticles[k].description)

\* generateSummariesBatch has returned
Summarized == edition # "basic" /\ pc \in {"write", "save", "exit"}

\* C9: no call rejects, so the batch is never aborted; a call that ends on a
\* failed attempt leaves the truncated description; when the stage returns
\* every selected article has its summary.
C9_FailureStaysLocal ==
    /\ \A k \in Indexes(calls) : calls[k].st # "rejected"
    /\ exitCode = 1 => pc = "exit" /\ writes = 0 /\ ~InFlight
    /\ LET k == lastResponse.idx
       IN  (k # 0 /\ lastResponse.outcome.kind # "ok" /\ calls[k].st = "done") =>
               IsTruncation(limitedArticles[k].summary, limitedArticles[k].description)
    /\ Summarized =>
           \A k \in Indexes(limitedArticles) :
               \/ limitedArticles[k].summary = trim(PROVIDER_TEXT)
               \/ IsTruncation(limitedArticles[k].summary, limitedArticles[k].description)

C9_Witness ==
    /\ Summarized
    /\ writes = 1
    /\ \E k, j \in 1..BATCH_SIZE, m \in (BATCH_SIZE + 1)..Len(limitedArticles) :
           /\ calls[k].requests = 3
           /\ IsTruncation(limitedArticles[k].summary, limitedArticles[k].description)
           /\ calls[j].requests = 1
           /\ limitedArticles[j].summary = trim(PROVIDER_TEXT)
           /\ limitedArticles[m].summary = trim(PROVIDER_TEXT)

NoCredential ==
    env.QWEN_API_KEY = "" /\ env.DOUBAO_API_KEY = "" /\ env.DEEPSEEK_API_KEY = ""

\* C10: without any credential no summarization request is issued and every
\* article of the snapshot has its truncated description as summary.
C10_NoCredentialFallback ==
    NoCredential =>
        /\ \A k \in Indexes(calls) : calls[k].requests = 0
        /\ lastResponse = NoResponse
        /\ writes > 0 =>
               \A k \in Indexes(snapshot.articles) :
                   IsTruncation(snapshot.articles[k].summary,
                                snapshot.articles[k].description)

C10_Witness ==
    /\ NoCredential
    /\ edition = "optimized"
    /\ writes = 1
    /\ Len(snapshot.articles) > BATCH_SIZE
    /\ \E k \in Indexes(snapshot.articles) :
           /\ Len(snapshot.articles[k].description) > 150
           /\ Len(snapshot.articles[k].summary) = 153

\* an article of one of the article lists of the run
Articles ==
    {allArticles[i] : i \in Indexes(allArticles)}
    \cup {uniqueArticles[i] : i \in Indexes(uniqueArticles)}
    \cup {limitedArticles[i] : i \in Indexes(limitedArticles)}
    \cup {snapshot.articles[i] : i \in Indexes(snapshot.articles)}

HasChinese(text) == \E i \in 1..Len(text) : SubSeq(text, i, i) = "#"

\* C11: for an article whose description holds a Chinese character no
\* summarization request is issued, whatever credentials are set, and the
\* summary it is given is the description cut to 150 characters plus '...'.
C11_ChineseDescription ==
    /\ \A k \in Indexes(calls) :
           HasChinese(limitedArticles[k].description) =>
               /\ calls[k].requests = 0
               /\ calls[k].st \in {"idle", "done"}
               /\ lastResponse.idx # k
               /\ (calls[k].st = "done" \/ pc \in {"write", "save", "exit"}) =>
                      IsTruncation(limitedArticles[k].summary,
                                   limitedArticles[k].description)
    /\ \A a \in Articles :
           HasChinese(a.description) =>
               \/ a.summary = ""
               \/ IsTruncation(a.summary, a.description)
    /\ writes > 0 =>
           \A k \in Indexes(snapshot.articles) :
               HasChinese(snapshot.articles[k].description) =>
                   IsTruncation(snapshot.articles[k].summary,
                                snapshot.articles[k].description)

C11_Witness ==
    /\ writes = 1
    /\ providerKey # ""
    /\ lastResponse.outcome.kind = "ok"
    /\ \E k \in Indexes(calls) :
           /\ HasChinese(limitedArticles[k].description)
           /\ Len(limitedArticles[k].description) > 150
           /\ SubSeq(limitedArticles[k].description, 1, 1) # "#"
           /\ calls[k].st = "done"
           /\ calls[k].requests = 0
           /\ Len(snapshot.articles[k].summary) = 153
    /\ \E j \in Indexes(calls) : calls[j].requests > 0

\* fetchAllRSS (or the fetch loop of the basic edition) has returned
Fetched == pc # "fetch"

\* new Date(..) cannot parse the publish date of the raw entry
Unparseable(item) ==
    \/ item.pubDate.kind = "invalid"
    \/ item.pubDate.kind = "absent" /\ item.isoDate.kind = "invalid"

\* the feed answered and every entry of it carries a usable date
Delivered(f) ==
    /\ remote[f].ok
    /\ \A i \in Indexes(remote[f].items) : ~Unparseable(remote[f].items[i])

\* the number of articles the feeds before f returned
RECURSIVE ReturnedBefore(_)
ReturnedBefore(f) ==
    IF f = 1 THEN 0 ELSE ReturnedBefore(f - 1) + Len(results[f - 1].value)

\* C12: every fetchRSS call settles with a list and the run goes on; a feed
\* that fails returns the empty list and contributes nothing; the list handed
\* to the Deduplicator is the concatenation, in feed order, of what the feeds
\* returned, so that every entry of every delivered feed is in it.
C12_FetchFailureIsolated ==
    /\ exitCode # 1
    /\ \A f \in Feeds :
           results[f].settled /\ ~remote[f].ok => results[f].value = << >>
    /\ Fetched =>
           /\ \A f \in Feeds : results[f].settled
           /\ Len(allArticles) = ReturnedBefore(NumFeeds + 1)
           /\ \A f \in Feeds : \A i \in Indexes(results[f].value) :
                  allArticles[ReturnedBefore(f) + i] = results[f].value[i]
           /\ \A f \in Feeds :
                  Delivered(f) =>
                      /\ Len(results[f].value) = Len(remote[f].items)
                      /\ \A i \in Indexes(remote[f].items) :
                             /\ allArticles[ReturnedBefore(f) + i].title
                                    = trim(remote[f].items[i].title)
                             /\ allArticles[ReturnedBefore(f) + i].link
                                    = trim(remote[f].items[i].link)
           /\ failCount = Cardinality({f \in Feeds : results[f].value = << >>})
           /\ successCount = NumFeeds - failCount

C12_Witness ==
    /\ pc = "rank"
    /\ edition = "optimized"
    /\ ~remote[1].ok
    /\ Delivered(2)
    /\ Len(remote[2].items) >= 2
    /\ failCount = 1
    /\ Len(uniqueArticles) = Len(remote[2].items)

\* the instant the Normalizer has to give the article of a raw entry
DateOf(item) ==
    IF item.pubDate.kind = "date" THEN item.pubDate.ms
    ELSE IF item.pubDate.kind = "absent" /\ item.isoDate.kind = "date"
         THEN item.isoDate.ms
    ELSE now

\* C13: a feed that was parsed yields one article per raw entry, dated with
\* the publish date of the entry when that is present and parseable and with
\* the current time otherwise.
C13_DateFallback ==
    \A f \in Feeds :
        results[f].settled /\ remote[f].ok =>
            /\ Len(results[f].value) = Len(remote[f].items)
            /\ \A i \in Indexes(remote[f].items) :
                   results[f].value[i].date = DateOf(remote[f].items[i])

\* the position of main, as the number of its stage
StageNo(p) ==
    CASE p = "fetch"      -> 1
      [] p = "dedup"      -> 2
      [] p = "categorize" -> 3
      [] p = "rank"       -> 4
      [] p = "select"     -> 5
      [] p = "summarize"  -> 6
      [] p \in {"loop", "batch", "pause"} -> 7
      [] p = "write"      -> 8
      [] p = "save"       -> 9
      [] OTHER            -> 10

\* fetch, dedup, ranking and selection are over and every retained article
\* has been given its summary
StagesDone ==
    /\ \A f \in Feeds : results[f].settled
    /\ StageNo(pc) >= 8
    /\ Len(uniqueArticles) <= Len(allArticles)
    /\ Len(limitedArticles) <= Len(uniqueArticles)
    /\ \A k \in Indexes(calls) : calls[k].st \in {"idle", "done"}
    /\ edition # "basic" /\ anyCredential =>
           \A k \in Indexes(calls) : calls[k].st = "done"
    /\ \A k \in Indexes(limitedArticles) : limitedArticles[k].summary # ""

\* C14: the snapshot is written at most once, from the write position, after
\* every stage is over; main never goes back to an earlier stage; a run that
\* ends with status 1 before the write leaves the previous snapshot as it
\* was, and nothing happens after the exit.
C14_WriteLast ==
    /\ [](writes <= 1)
    /\ [](writes > 0 \/ pc = "save" => StagesDone)
    /\ [](pc # "exit" => exitCode = -1 /\ snapshot = PreviousSnapshot /\ writes = 0)
    /\ [](exitCode = 0 => writes = 1)
    /\ [][/\ StageNo(pc') >= StageNo(pc)
          /\ pc # "exit"
          /\ (writes' # writes \/ snapshot' # snapshot) => pc = "save"
          /\ (exitCode' = 1 /\ pc # "save") =>
                 /\ pc' = "exit"
                 /\ writes' = 0
                 /\ snapshot' = PreviousSnapshot]_vars

C14_Witness ==
    /\ pc = "exit"
    /\ exitCode = 0
    /\ writes = 1
    /\ edition = "keyword"
    /\ Len(pauses) >= 1
    /\ \E k \in Indexes(calls) : calls[k].requests = 3
    /\ \E k \in Indexes(calls) : calls[k].requests = 0 /\ calls[k].st = "done"

\* the run has replaced the snapshot and ended with status 0
Succeeded == pc = "exit" /\ exitCode = 0 /\ writes = 1

\* C15: a run that replaces the snapshot and exits with status 0 has fetched
\* at least one configured feed successfully; and a run in which some feed
\* succeeded ends with status 1 only when the writer raises.
C15_SuccessNeedsOneFeed ==
    /\ Succeeded => \E f \in Feeds : remote[f].ok
    /\ (exitCode = 1 /\ \E f \in Feeds : remote[f].ok) => StagesDone

\* the batch of the k-th retained article, counted from 1
BatchNo(k) == (k + 2) \div 3

Started(k) == calls[k].st # "idle"

\* C16: at most 3 summarizer calls are in flight; a call starts only when
\* every call of the batches before its own has returned; between two
\* batches, and only there, main waits 1000 ms.
C16_BatchesOfThree ==
    /\ Cardinality({k \in Indexes(calls) : calls[k].st \in {"pending", "backoff"}}) <= 3
    /\ \A j, k \in Indexes(calls) :
           Started(k) /\ BatchNo(j) < BatchNo(k) => calls[j].st = "done"
    /\ \A k \in Indexes(calls) : Started(k) => Len(pauses) >= BatchNo(k) - 1
    /\ \A p \in Indexes(pauses) : pauses[p] = 1000
    /\ pc = "pause" => ~InFlight
    /\ \/ Len(pauses) = 0
       \/ /\ Len(pauses) < BatchNo(Len(calls))
          /\ \A k \in Indexes(calls) : BatchNo(k) <= Len(pauses) => calls[k].st = "done"
    /\ (Summarized /\ anyCredential /\ Len(calls) > 0) =>
           Len(pauses) = BatchNo(Len(calls)) - 1

C16_Witness ==
    /\ pc = "batch"
    /\ pauses = <<1000>>
    /\ \E k \in Indexes(calls) :
           /\ BatchNo(k) = 2
           /\ calls[k].st = "backoff"
    /\ \E j \in Indexes(calls) :
           /\ BatchNo(j) = 1
           /\ calls[j].requests > 1

\* what the first round of the Quota Selector takes from the ranked list
PhaseOne == phase1(categorizedArticles, 1, << >>, {}).limited

\* the positions of the ranked list that hold an article of the category
CandidatesOf(category) ==
    {i \in Indexes(categorizedArticles) : categorizedArticles[i].category = category}

\* the candidates of the category that the first round takes
TakenOf(category) ==
    {i \in CandidatesOf(category) :
        \E k \in Indexes(PhaseOne) : PhaseOne[k].title = categorizedArticles[i].title}

\* C17: the first round takes min(3, n) of the n candidates of each
\* configured category, none of the candidates it leaves has a higher
\* relevanceScore than one it takes, and its picks open the selected list.
C17_PhaseOneByRelevance ==
    Selected =>
        /\ Len(PhaseOne) <= Len(limitedArticles)
        /\ \A k \in Indexes(PhaseOne) :
               [limitedArticles[k] EXCEPT !.summary = ""]
                   = [PhaseOne[k] EXCEPT !.summary = ""]
        /\ \A c \in Indexes(CategoryNames) :
               LET candidates == CandidatesOf(CategoryNames[c])
                   taken      == TakenOf(CategoryNames[c])
               IN  /\ Cardinality(taken) = Min(3, Cardinality(candidates))
                   /\ \A i \in taken : \A j \in candidates \ taken :
                          categorizedArticles[j].relevanceScore
                              <= categorizedArticles[i].relevanceScore

\* no two ranked articles carry the same link
DistinctLinks ==
    \A i, j \in Indexes(categorizedArticles) :
        i # j => categorizedArticles[i].link # categorizedArticles[j].link

\* finalScore of a is at most finalScore of b
FinalScoreAtMost(a, b) ==
    a.finalScore.num * b.finalScore.den <= b.finalScore.num * a.finalScore.den

\* C18: the selected list holds min(50, n) of the n ranked articles, none of
\* them twice; what follows the picks of the first round is in descending
\* finalScore order, and no ranked article left out has a higher finalScore
\* than one of these.
C18_PhaseTwoFill ==
    Selected =>
        /\ Len(limitedArticles) = Min(50, Len(categorizedArticles))
        /\ \A i, j \in Indexes(limitedArticles) :
               i # j => limitedArticles[i].title # limitedArticles[j].title
        /\ \A k \in (Len(PhaseOne) + 1)..Len(limitedArticles) :
               /\ \A j \in (k + 1)..Len(limitedArticles) :
                      FinalScoreAtMost(limitedArticles[j], limitedArticles[k])
               /\ \A i \in Indexes(categorizedArticles) :
                      categorizedArticles[i].title \notin TitlesOf(limitedArticles)
                          => FinalScoreAtMost(categorizedArticles[i], limitedArticles[k])

\* the Ranker of the keyword edition has run
Ranked == edition = "keyword" /\ pc \notin {"fetch", "dedup", "categorize", "rank"}

DatesOf(list) == {list[i].date : i \in Indexes(list)}

Earliest(list) == CHOOSE t \in DatesOf(list) : \A u \in DatesOf(list) : t <= u

Latest(list) == CHOOSE t \in DatesOf(list) : \A u \in DatesOf(list) : t >= u

\* C19: with minDate and maxDate the extreme dates of the categorized set,
\* 2 * finalScore = relevanceScore + timeScore, timeScore being
\* 100 * (date - minDate) / (maxDate - minDate), or 50 when the two are equal;
\* finalScore is within 0..100, and of two articles of equal relevanceScore
\* the later one has no lower finalScore.
C19_FinalScore ==
    Ranked =>
        \A i \in Indexes(categorizedArticles) :
            LET a       == categorizedArticles[i]
                minDate == Earliest(categorizedArticles)
                maxDate == Latest(categorizedArticles)
                span    == maxDate - minDate
            IN  /\ a.finalScore.den > 0
                /\ IF span = 0
                   THEN a.finalScore.num * 2 = (a.relevanceScore + 50) * a.finalScore.den
                   ELSE a.finalScore.num * 2 * span
                            = (a.relevanceScore * span + 100 * (a.date - minDate))
                                  * a.finalScore.den
                /\ 0 <= a.finalScore.num
                /\ a.finalScore.num <= 100 * a.finalScore.den
                /\ \A j \in Indexes(categorizedArticles) :
                       LET b == categorizedArticles[j]
                       IN  (a.relevanceScore = b.relevanceScore /\ a.date <= b.date)
                               => FinalScoreAtMost(a, b)

C19_Witness ==
    /\ Ranked
    /\ \E i, j \in Indexes(categorizedArticles) :
           /\ categorizedArticles[i].relevanceScore = categorizedArticles[j].relevanceScore
           /\ categorizedArticles[i].date < categorizedArticles[j].date
           /\ ~FinalScoreAtMost(categorizedArticles[j], categorizedArticles[i])
    /\ \E u \in Indexes(uniqueArticles) :
           uniqueArticles[u].date < Earliest(categorizedArticles)

\* the articles the stages before the writer hold, fetch results included
Held ==
    UNION {{results[f].value[i] : i \in Indexes(results[f].value)} : f \in Feeds}
    \cup {allArticles[i] : i \in Indexes(allArticles)}
    \cup {uniqueArticles[i] : i \in Indexes(uniqueArticles)}
    \cup {categorizedArticles[i] : i \in Indexes(categorizedArticles)}
    \cup {limitedArticles[i] : i \in Indexes(limitedArticles)}

\* the Summarizer has not assigned anything yet
BeforeSummarizer == StageNo(pc) <= 6

InSummarizer == pc \in {"summarize", "loop", "batch", "pause"}

NoSummaryYet == \A a \in Held : a.summary = ""

\* a step that leaves every list as it is, up to the summary of the
\* retained articles
SummaryOnly ==
    /\ Len(limitedArticles') = Len(limitedArticles)
    /\ \A k \in Indexes(limitedArticles) :
           [limitedArticles'[k] EXCEPT !.summary = ""]
               = [limitedArticles[k] EXCEPT !.summary = ""]
    /\ UNCHANGED << results, allArticles, uniqueArticles, categorizedArticles >>

\* C20, stated for every edition: summary is empty until the Summarizer
\* runs, and the Summarizer changes nothing but summary.
C20_SummaryOwnedBySummarizer ==
    /\ [](BeforeSummarizer => NoSummaryYet)
    /\ [][InSummarizer => SummaryOnly]_vars

\* C20: in the optimized and keyword editions summary is empty until the
\* Summarizer runs; in the basic edition, which has no Summarizer, the
\* Normalizer sets summary to the description cut to 150 characters plus
\* '...'.  In every edition the Summarizer changes nothing but the summary of
\* the retained articles, and the retained list is not changed after it.
C20_SummaryOwnership ==
    /\ [](edition # "basic" /\ BeforeSummarizer => NoSummaryYet)
    /\ [](edition = "basic" =>
             /\ \A a \in Held : IsTruncation(a.summary, a.description)
             /\ ~InSummarizer)
    /\ [][InSummarizer => SummaryOnly]_vars
    /\ [][StageNo(pc) >= 8 => limitedArticles' = limitedArticles]_vars
    /\ [](writes > 0 => snapshot.articles = limitedArticles)

C20_Witness ==
    /\ edition = "keyword"
    /\ pc = "batch"
    /\ Len(limitedArticles) > BATCH_SIZE
    /\ \E k \in Indexes(limitedArticles) :
           /\ limitedArticles[k].summary = trim(PROVIDER_TEXT)
           /\ limitedArticles[k].relevanceScore > 0
    /\ \E k \in Indexes(limitedArticles) :
           /\ limitedArticles[k].summary # ""
           /\ IsTruncation(limitedArticles[k].summary, limitedArticles[k].description)
    /\ \E k \in Indexes(limitedArticles) : limitedArticles[k].summary = ""

\* title, link and category label of an article
Labelled(a) == [title |-> a.title, link |-> a.link, category |-> a.category]

LabelledAll(list) == [i \in Indexes(list) |-> Labelled(list[i])]

\* the label the Normalizer gives the entries of feed f
LabelOf(f) == IF edition = "keyword" THEN "" ELSE RSS_SOURCES[f].category

\* the entries of the delivered feeds from feed f on, in configuration order
RECURSIVE InFeedOrder(_)
InFeedOrder(f) ==
    IF f > NumFeeds THEN << >>
    ELSE (IF Delivered(f)
          THEN [i \in Indexes(remote[f].items) |->
                   [title    |-> trim(remote[f].items[i].title),
                    link     |-> trim(remote[f].items[i].link),
                    category |-> LabelOf(f)]]
          ELSE << >>) \o InFeedOrder(f + 1)

\* C21: whatever the order in which the fetches settle, the concatenated
\* list is the entries of the feeds in configuration order, and the
\* Deduplicator keeps of every title the entry of the first feed in
\* configuration order that has it, with the label of that feed.
C21_ConfigurationOrder ==
    /\ Fetched => LabelledAll(allArticles) = InFeedOrder(1)
    /\ JustDeduplicated =>
           /\ Len(uniqueArticles) = Cardinality(FirstOfTitle(InFeedOrder(1)))
           /\ \A n \in Indexes(uniqueArticles) :
                  Labelled(uniqueArticles[n])
                      = InFeedOrder(1)[Nth(FirstOfTitle(InFeedOrder(1)), n)]

C21_Witness ==
    /\ edition = "optimized"
    /\ JustDeduplicated
    /\ \E i \in Indexes(remote[1].items), j \in Indexes(remote[2].items) :
           /\ trim(remote[1].items[i].title) = trim(remote[2].items[j].title)
           /\ trim(remote[1].items[i].link) # trim(remote[2].items[j].link)
           /\ \E n \in Indexes(uniqueArticles) :
                  /\ uniqueArticles[n].title = trim(remote[1].items[i].title)
                  /\ uniqueArticles[n].link = trim(remote[1].items[i].link)
                  /\ uniqueArticles[n].category = RSS_SOURCES[1].category
    /\ Len(uniqueArticles) >= 2

====
